---- MODULE Spec2Model ----
(***************************************************************************)
(* Model of the slot-booking backend (src/server.js).                      *)
(*                                                                         *)
(* A JavaScript string is a sequence of one-character strings, so that     *)
(* split, replace and substring are modelled by what they do.  The         *)
(* persisted JSON object is a sequence of entries [date, slots] kept in    *)
(* the order Object.keys enumerates them.  Every request handler is        *)
(* synchronous, so each is one atomic action in Spec.  SpecCorrupt adds a  *)
(* data file that becomes unreadable; SpecRace takes POST /book statement  *)
(* by statement for requests that overlap in time.                         *)
(***************************************************************************)
EXTENDS Integers, Sequences, FiniteSets, TLC

VARIABLES file, last, tz, reqs

vars == <<file, last, tz, reqs>>

(***************************************************************************)
(* Bounds and input sets                                                   *)
(***************************************************************************)

\* Book is not offered once the store holds this many bookings.
MaxBookings == 2

\* String literals as character sequences.
Sat == <<"2","0","2","4","-","0","6","-","0","8">>
Sun == <<"2","0","2","4","-","0","6","-","0","9">>
Y2024 == <<"2","0","2","4">>
Empty == <<>>

S0800 == <<"0","8",":","0","0">>
S0900 == <<"0","9",":","0","0">>
S1000 == <<"1","0",":","0","0">>
S1100 == <<"1","1",":","0","0">>
S1200 == <<"1","2",":","0","0">>
S1400 == <<"1","4",":","0","0">>
S1500 == <<"1","5",":","0","0">>
S1600 == <<"1","6",":","0","0">>
S1700 == <<"1","7",":","0","0">>
S06c == <<"0","6",":">>

\* Request inputs: a Saturday, a Sunday, a year-only key, and the missing date.
Dates == {Sat, Sun, Y2024, Empty}

\* Request inputs: a slot of both templates, a slot of the default template
\* only, a slot of no template, and the missing slot.
Slots == {S0900, S0800, S06c, Empty}

\* Offsets (hours east of UTC) of the time zone the server process runs in.
TzOffsets == {-5, 1}

(***************************************************************************)
(* JavaScript string primitives                                            *)
(***************************************************************************)

Min(a, b) == IF a < b THEN a ELSE b

RECURSIVE SplitFrom(_, _, _, _)
SplitFrom(s, sep, i, cur) ==
    IF i > Len(s) THEN <<cur>>
    ELSE IF s[i] = sep THEN <<cur>> \o SplitFrom(s, sep, i + 1, <<>>)
    ELSE SplitFrom(s, sep, i + 1, Append(cur, s[i]))

\* String.prototype.split(sep) for a one-character separator.
Split(s, sep) == SplitFrom(s, sep, 1, <<>>)

RECURSIVE ReplaceFrom(_, _, _, _)
ReplaceFrom(s, a, b, i) ==
    IF i > Len(s) THEN s
    ELSE IF s[i] = a THEN SubSeq(s, 1, i - 1) \o <<b>> \o SubSeq(s, i + 1, Len(s))
    ELSE ReplaceFrom(s, a, b, i + 1)

\* String.prototype.replace(a, b) with string arguments: first occurrence only.
Replace(s, a, b) == ReplaceFrom(s, a, b, 1)

\* String.prototype.substring(from, to), 0-based, indices clamped to the length.
Substring(s, from, to) == SubSeq(s, Min(from, Len(s)) + 1, Min(to, Len(s)))

\* String.prototype.substring(from).
SubstringFrom(s, from) == SubSeq(s, Min(from, Len(s)) + 1, Len(s))

\* Includes with a search that starts at the second element.
Includes_FromSecond(arr, x) == \E i \in 2..Len(arr) : arr[i] = x

\* Array.prototype.includes on an array of strings.
Includes(arr, x) == \E i \in 1..Len(arr) : arr[i] = x

\* Filter that removes nothing.
Filter_KeepAll(allSlots, bookedSlots) == allSlots

RECURSIVE Filter(_, _)
\* allSlots.filter(slot => !bookedSlots.includes(slot))
Filter(allSlots, bookedSlots) ==
    IF allSlots = <<>> THEN <<>>
    ELSE IF ~Includes(bookedSlots, Head(allSlots))
         THEN <<Head(allSlots)>> \o Filter(Tail(allSlots), bookedSlots)
         ELSE Filter(Tail(allSlots), bookedSlots)

RECURSIVE Without(_, _)
\* data[date].filter(s => s !== slot)
Without(arr, slot) ==
    IF arr = <<>> THEN <<>>
    ELSE IF Head(arr) # slot
         THEN <<Head(arr)>> \o Without(Tail(arr), slot)
         ELSE Without(Tail(arr), slot)

\* Push that puts the slot in front.
Push_Front(arr, x) == <<x>> \o arr

\* data[date].push(slot)
Push(arr, x) == Append(arr, x)

\* !v for a request field: a missing field and the empty string are both falsy.
IsFalsy(v) == v = <<>>

(***************************************************************************)
(* Dates: new Date(date).getDay()                                          *)
(***************************************************************************)

DigitChars == {"0","1","2","3","4","5","6","7","8","9"}

DigitVal(c) ==
    CASE c = "0" -> 0 [] c = "1" -> 1 [] c = "2" -> 2 [] c = "3" -> 3
      [] c = "4" -> 4 [] c = "5" -> 5 [] c = "6" -> 6 [] c = "7" -> 7
      [] c = "8" -> 8 [] c = "9" -> 9

AllDigits(s) == \A i \in 1..Len(s) : s[i] \in DigitChars

RECURSIVE ToNat(_)
ToNat(s) == IF s = <<>> THEN 0 ELSE 10 * ToNat(SubSeq(s, 1, Len(s) - 1)) + DigitVal(s[Len(s)])

IsLeap(y) == (y % 4 = 0 /\ y % 100 # 0) \/ y % 400 = 0

DaysInMonth(y, m) ==
    IF m = 2 THEN (IF IsLeap(y) THEN 29 ELSE 28)
    ELSE IF m \in {4, 6, 9, 11} THEN 30 ELSE 31

\* Date-only ISO forms YYYY, YYYY-MM and YYYY-MM-DD; anything else is an
\* Invalid Date here.
ParseDate(date) ==
    LET p == Split(date, "-")
        ok == /\ Len(p) \in 1..3
              /\ Len(p[1]) = 4 /\ AllDigits(p[1])
              /\ \A i \in 2..Len(p) : Len(p[i]) = 2 /\ AllDigits(p[i])
        y == ToNat(p[1])
        m == IF Len(p) >= 2 THEN ToNat(p[2]) ELSE 1
        d == IF Len(p) >= 3 THEN ToNat(p[3]) ELSE 1
    IN  IF ok /\ m \in 1..12 /\ d \in 1..DaysInMonth(y, m)
        THEN [valid |-> TRUE, y |-> y, m |-> m, d |-> d]
        ELSE [valid |-> FALSE, y |-> 0, m |-> 0, d |-> 0]

\* Days from 1970-01-01 to the civil date y-m-d.
DaysFromCivil(y, m, d) ==
    LET yy == IF m <= 2 THEN y - 1 ELSE y
        era == yy \div 400
        yoe == yy - era * 400
        mp == IF m > 2 THEN m - 3 ELSE m + 9
        doy == (153 * mp + 2) \div 5 + d - 1
        doe == yoe * 365 + yoe \div 4 - yoe \div 100 + doy
    IN  era * 146097 + doe - 719468

\* Day of week of a day number (0 = Sunday); 1970-01-01 was a Thursday.
WeekdayOf(days) == (days + 4) % 7

NaN == -1

\* new Date(date).getDay(): a date-only string is midnight UTC, and getDay
\* reads the day of week in the local time zone of the process.
GetDay(date, offset) ==
    LET p == ParseDate(date)
    IN  IF ~p.valid THEN NaN
        ELSE WeekdayOf((DaysFromCivil(p.y, p.m, p.d) * 24 + offset) \div 24)

(***************************************************************************)
(* Slot templates                                                          *)
(***************************************************************************)

DEFAULT_SLOTS == <<S0800, S0900, S1000, S1100, S1400, S1500, S1600, S1700>>
SATURDAY_SLOTS == <<S0900, S1000, S1100, S1200>>

\* (day === 6) ? SATURDAY_SLOTS : DEFAULT_SLOTS
AllSlots(day) == IF day = 6 THEN SATURDAY_SLOTS ELSE DEFAULT_SLOTS

(***************************************************************************)
(* The data object: a sequence of entries in Object.keys order             *)
(***************************************************************************)

\* A property key that is a canonical array index ("0", "7", "2024") is
\* enumerated before every other key, in ascending numeric order.
IsArrayIndex(key) ==
    /\ Len(key) \in 1..9
    /\ AllDigits(key)
    /\ (Len(key) = 1 \/ key[1] # "0")

KeyIndex(data, date) ==
    IF \E i \in 1..Len(data) : data[i].date = date
    THEN CHOOSE i \in 1..Len(data) : data[i].date = date
    ELSE 0

\* data[date] is defined
HasKey(data, date) == KeyIndex(data, date) # 0

\* data[date] || []
SlotsOf(data, date) == IF HasKey(data, date) THEN data[KeyIndex(data, date)].slots ELSE <<>>

\* Position at which a key that is not yet a property of data is enumerated.
InsertPos(data, date) ==
    IF IsArrayIndex(date)
    THEN 1 + Cardinality({i \in 1..Len(data) :
                 IsArrayIndex(data[i].date) /\ ToNat(data[i].date) < ToNat(date)})
    ELSE Len(data) + 1

\* data[date] = slots
Put(data, date, slots) ==
    IF HasKey(data, date)
    THEN [data EXCEPT ![KeyIndex(data, date)].slots = slots]
    ELSE LET k == InsertPos(data, date)
         IN  SubSeq(data, 1, k - 1) \o <<[date |-> date, slots |-> slots]>>
                 \o SubSeq(data, k, Len(data))

\* delete data[date]
DeleteKey(data, date) ==
    LET k == KeyIndex(data, date)
    IN  IF k = 0 THEN data ELSE SubSeq(data, 1, k - 1) \o SubSeq(data, k + 1, Len(data))

RECURSIVE TotalBookings(_)
TotalBookings(data) ==
    IF data = <<>> THEN 0 ELSE Len(Head(data).slots) + TotalBookings(Tail(data))

\* The pair (date, slot) is booked in data.
HasBooking(data, date, slot) == Includes(SlotsOf(data, date), slot)

(***************************************************************************)
(* The data file                                                           *)
(***************************************************************************)

AbsentFile == [state |-> "absent", data |-> <<>>]

OkFile(data) == [state |-> "ok", data |-> data]

\* The file exists but readFileSync or JSON.parse throws on it.
CorruptFile == [state |-> "corrupt", data |-> <<>>]

\* ReadData that rewrites the file as '{}' even when it exists.
ReadData_Reset(f) == [data |-> <<>>, file |-> OkFile(<<>>)]

\* readData(): the object it returns and the file it leaves behind.  An
\* absent file is created holding '{}'; an unparsable file reads as {}.
ReadData(f) ==
    IF f.state = "absent" THEN [data |-> <<>>, file |-> OkFile(<<>>)]
    ELSE IF f.state = "corrupt" THEN [data |-> <<>>, file |-> f]
    ELSE [data |-> f.data, file |-> f]

\* writeData(data): the file it leaves behind; ok is whether writeFileSync
\* returned (true) or threw (false).
WriteData(f, data, ok) == IF ok THEN OkFile(data) ELSE f

(***************************************************************************)
(* Booking ids                                                             *)
(***************************************************************************)

\* BookingId that leaves the date out.
BookingId_SlotOnly(date, slot) == Replace(slot, ":", "-")

\* `${date}-${slot.replace(':', '-')}`
BookingId(date, slot) == date \o <<"-">> \o Replace(slot, ":", "-")

\* const [date, time] = bookingId.split('-')
IdDate(bookingId) == Split(bookingId, "-")[1]

\* time is undefined when the id holds no dash
IdHasTime(bookingId) == Len(Split(bookingId, "-")) >= 2

IdTime(bookingId) == Split(bookingId, "-")[2]

\* `${time.substring(0, 2)}:${time.substring(3)}`
IdSlot(bookingId) ==
    Substring(IdTime(bookingId), 0, 2) \o <<":">> \o SubstringFrom(IdTime(bookingId), 3)

\* Ids a client sends to DELETE /booking/:id: the id of every pair that can
\* be booked, and an id without a dash.
Abc == <<"a","b","c">>
Ids == {BookingId(d, s) : d \in Dates \ {Empty}, s \in Slots \ {Empty}} \cup {Abc}

(***************************************************************************)
(* Responses                                                               *)
(***************************************************************************)

\* The last request and its response.  date and slot are the handler's own
\* (for DELETE, the decoded ones); accessed: readData was called; wrote:
\* writeData was called; writeOk: it returned true.
Resp(op, status, error, date, slot) ==
    [op |-> op, status |-> status, error |-> error, date |-> date, slot |-> slot,
     id |-> <<>>, available |-> <<>>, booked |-> <<>>, bookings |-> <<>>,
     accessed |-> FALSE, wrote |-> FALSE, writeOk |-> FALSE]

\* if (!date) of GET /slots
SlotsInvalid(date) == IsFalsy(date)

\* GET /slots
SlotsHandler(f, offset, date) ==
    IF SlotsInvalid(date)
    THEN [file |-> f, resp |-> Resp("slots", 400, "InvalidInput", date, <<>>)]
    ELSE LET r == ReadData(f)
             bookedSlots == SlotsOf(r.data, date)
             day == GetDay(date, offset)
             allSlots == AllSlots(day)
             availableSlots == Filter(allSlots, bookedSlots)
         IN  [file |-> r.file,
              resp |-> [Resp("slots", 200, "", date, <<>>) EXCEPT
                           !.available = availableSlots,
                           !.booked = bookedSlots,
                           !.accessed = TRUE]]

\* BookInvalid that also rejects a slot of no template.
BookInvalid_OffTemplate(date, slot) ==
    \/ IsFalsy(date) \/ IsFalsy(slot)
    \/ ~Includes(DEFAULT_SLOTS \o SATURDAY_SLOTS, slot)

\* BookInvalid that forgets the slot.
BookInvalid_DateOnly(date, slot) == IsFalsy(date)

\* if (!date || !slot) of POST /book
BookInvalid(date, slot) == IsFalsy(date) \/ IsFalsy(slot)

\* AlreadyBooked that never finds the slot.
AlreadyBooked_Never(data, date, slot) == FALSE

\* if (data[date].includes(slot)) of POST /book
AlreadyBooked(data, date, slot) == Includes(SlotsOf(data, date), slot)

\* WriteStatus that ignores the result of writeData.
WriteStatus_Always200(ok) == 200

\* if (writeData(data)) ... else ... of POST /book and DELETE /booking/:id
WriteStatus(ok) == IF ok THEN 200 ELSE 500

\* POST /book
BookHandler(f, date, slot, ok) ==
    IF BookInvalid(date, slot)
    THEN [file |-> f, resp |-> Resp("book", 400, "InvalidInput", date, slot)]
    ELSE LET r == ReadData(f)
         IN  IF AlreadyBooked(r.data, date, slot)
             THEN [file |-> r.file,
                   resp |-> [Resp("book", 409, "Conflict", date, slot) EXCEPT
                                !.accessed = TRUE]]
             ELSE LET data == Put(r.data, date, Push(SlotsOf(r.data, date), slot))
                  IN  [file |-> WriteData(r.file, data, ok),
                       resp |-> [Resp("book", WriteStatus(ok),
                                      IF WriteStatus(ok) = 200 THEN "" ELSE "Persistence",
                                      date, slot) EXCEPT
                                    !.accessed = TRUE, !.wrote = TRUE, !.writeOk = ok]]

\* EntryBookings that lists only the first slot of a date.
EntryBookings_FirstOnly(date, slots) ==
    IF slots = <<>> THEN <<>>
    ELSE <<[date |-> date, slot |-> Head(slots), id |-> BookingId(date, Head(slots))]>>

RECURSIVE EntryBookings(_, _)
\* data[date].forEach(slot => formattedBookings.push({date, slot, id}))
EntryBookings(date, slots) ==
    IF slots = <<>> THEN <<>>
    ELSE <<[date |-> date, slot |-> Head(slots), id |-> BookingId(date, Head(slots))]>>
             \o EntryBookings(date, Tail(slots))

RECURSIVE FormattedBookings(_)
\* Object.keys(data).forEach(date => ...)
FormattedBookings(data) ==
    IF data = <<>> THEN <<>>
    ELSE EntryBookings(Head(data).date, Head(data).slots) \o FormattedBookings(Tail(data))

\* GET /bookings; totalBookings is the length of bookings
BookingsHandler(f) ==
    LET r == ReadData(f)
    IN  [file |-> r.file,
         resp |-> [Resp("bookings", 200, "", <<>>, <<>>) EXCEPT
                      !.bookings = FormattedBookings(r.data),
                      !.accessed = TRUE]]

\* totalBookings: formattedBookings.length
TotalOf(resp) == Len(resp.bookings)

\* if (!data[date] || !data[date].includes(slot)) of DELETE /booking/:id
NotFound(data, date, slot) == ~HasKey(data, date) \/ ~Includes(SlotsOf(data, date), slot)

\* RemoveSlot that drops the whole date.
RemoveSlot_WholeDate(data, date, slot) == DeleteKey(data, date)

\* RemoveSlot that keeps the emptied date.
RemoveSlot_NoPrune(data, date, slot) == Put(data, date, Without(SlotsOf(data, date), slot))

\* data[date] = data[date].filter(...); if (data[date].length === 0) delete data[date]
RemoveSlot(data, date, slot) ==
    LET rest == Without(SlotsOf(data, date), slot)
    IN  IF Len(rest) = 0 THEN DeleteKey(data, date) ELSE Put(data, date, rest)

\* DELETE /booking/:id.  time.substring throws a TypeError when time is
\* undefined; the framework answers an uncaught exception with 500.
CancelHandler(f, bookingId, ok) ==
    IF ~IdHasTime(bookingId)
    THEN [file |-> f,
          resp |-> [Resp("cancel", 500, "TypeError", IdDate(bookingId), <<>>) EXCEPT
                       !.id = bookingId]]
    ELSE LET date == IdDate(bookingId)
             slot == IdSlot(bookingId)
             r == ReadData(f)
         IN  IF NotFound(r.data, date, slot)
             THEN [file |-> r.file,
                   resp |-> [Resp("cancel", 404, "NotFound", date, slot) EXCEPT
                                !.id = bookingId, !.accessed = TRUE]]
             ELSE [file |-> WriteData(r.file, RemoveSlot(r.data, date, slot), ok),
                   resp |-> [Resp("cancel", WriteStatus(ok),
                                  IF WriteStatus(ok) = 200 THEN "" ELSE "Persistence",
                                  date, slot) EXCEPT
                                !.id = bookingId, !.accessed = TRUE,
                                !.wrote = TRUE, !.writeOk = ok]]

(***************************************************************************)
(* The state machine                                                       *)
(***************************************************************************)

\* Clients that may have a POST /book in flight at the same time.
Clients == {1, 2}

\* A POST /book in flight.  pc: "idle" no request, "queued" received and
\* waiting for its handler to be called, "read" the handler is past
\* readData (line 89), "done" answered.  data is the handler's local data;
\* overlap: another request was in flight when this one arrived.
IdleReq ==
    [pc |-> "idle", date |-> <<>>, slot |-> <<>>, data |-> <<>>,
     overlap |-> FALSE, status |-> 0]

Init ==
    /\ file = AbsentFile
    /\ last = Resp("none", 0, "", <<>>, <<>>)
    /\ tz \in TzOffsets
    /\ reqs = [c \in Clients |-> IdleReq]

GetSlots ==
    \E date \in Dates :
        LET h == SlotsHandler(file, tz, date)
        IN  /\ file' = h.file
            /\ last' = h.resp
            /\ UNCHANGED <<tz, reqs>>

Book ==
    \E date \in Dates, slot \in Slots, ok \in BOOLEAN :
        LET h == BookHandler(file, date, slot, ok)
        IN  /\ TotalBookings(file.data) < MaxBookings \/ ~h.resp.wrote
            /\ file' = h.file
            /\ last' = h.resp
            /\ UNCHANGED <<tz, reqs>>

GetBookings ==
    LET h == BookingsHandler(file)
    IN  /\ file' = h.file
        /\ last' = h.resp
        /\ UNCHANGED <<tz, reqs>>

Cancel ==
    \E bookingId \in Ids, ok \in BOOLEAN :
        LET h == CancelHandler(file, bookingId, ok)
        IN  /\ file' = h.file
            /\ last' = h.resp
            /\ UNCHANGED <<tz, reqs>>

Next == GetSlots \/ Book \/ GetBookings \/ Cancel

Spec == Init /\ [][Next]_vars

\* The environment damages the data file (or makes it unreadable).
Corrupt ==
    /\ file.state = "ok"
    /\ file' = CorruptFile
    /\ UNCHANGED <<last, tz, reqs>>

NextCorrupt == GetSlots \/ Book \/ GetBookings \/ Cancel \/ Corrupt

\* The request handlers with a data file that can become unreadable.
SpecCorrupt == Init /\ [][NextCorrupt]_vars

(***************************************************************************)
(* POST /book statement by statement, for requests that overlap in time    *)
(***************************************************************************)

InFlight(rs) == {c \in Clients : rs[c].pc \in {"queued", "read"}}

\* Inputs of the overlapping requests: two dates, a slot of the templates,
\* a slot of no template and the missing slot.
RaceDates == {Sat, Y2024}
RaceSlots == {S0900, S06c, Empty}

\* A request arrives while others may still be in flight.
Arrive(c) ==
    \E date \in RaceDates, slot \in RaceSlots :
        /\ reqs[c].pc = "idle"
        /\ TotalBookings(file.data) + Cardinality(InFlight(reqs)) < MaxBookings
        /\ reqs' = [reqs EXCEPT ![c] =
                        [IdleReq EXCEPT !.pc = "queued", !.date = date, !.slot = slot,
                                        !.overlap = InFlight(reqs) # {}]]
        /\ UNCHANGED <<file, last, tz>>

\* MayRun for handlers that would yield between readData and writeData.
MayRun_Always(rs, c) == TRUE

\* The handler of c can be called: no other handler is between its
\* readData and its response.  readFileSync and writeFileSync block and the
\* handler holds no await and no callback, so it runs to completion.
MayRun(rs, c) == \A o \in Clients \ {c} : rs[o].pc # "read"

\* Lines 78-89: validation, then readData.
BookRead(c) ==
    /\ reqs[c].pc = "queued"
    /\ MayRun(reqs, c)
    /\ IF BookInvalid(reqs[c].date, reqs[c].slot)
       THEN /\ reqs' = [reqs EXCEPT ![c].pc = "done", ![c].status = 400]
            /\ last' = Resp("book", 400, "InvalidInput", reqs[c].date, reqs[c].slot)
            /\ UNCHANGED <<file, tz>>
       ELSE LET r == ReadData(file)
            IN  /\ file' = r.file
                /\ reqs' = [reqs EXCEPT ![c].pc = "read", ![c].data = r.data]
                /\ UNCHANGED <<last, tz>>

\* Lines 91-120: the includes check, push, writeData and the response.
BookWrite(c) ==
    \E ok \in BOOLEAN :
        LET date == reqs[c].date
            slot == reqs[c].slot
            data == reqs[c].data
        IN  /\ reqs[c].pc = "read"
            /\ IF AlreadyBooked(data, date, slot)
               THEN /\ reqs' = [reqs EXCEPT ![c].pc = "done", ![c].status = 409]
                    /\ last' = [Resp("book", 409, "Conflict", date, slot) EXCEPT
                                    !.accessed = TRUE]
                    /\ UNCHANGED <<file, tz>>
               ELSE /\ file' = WriteData(file, Put(data, date, Push(SlotsOf(data, date), slot)), ok)
                    /\ reqs' = [reqs EXCEPT ![c].pc = "done", ![c].status = WriteStatus(ok)]
                    /\ last' = [Resp("book", WriteStatus(ok),
                                     IF WriteStatus(ok) = 200 THEN "" ELSE "Persistence",
                                     date, slot) EXCEPT
                                    !.accessed = TRUE, !.wrote = TRUE, !.writeOk = ok]
                    /\ UNCHANGED tz

\* The client has its answer and may send another request.
Finish(c) ==
    /\ reqs[c].pc = "done"
    /\ reqs' = [reqs EXCEPT ![c] = IdleReq]
    /\ UNCHANGED <<file, last, tz>>

NextRace ==
    \E c \in Clients : Arrive(c) \/ BookRead(c) \/ BookWrite(c) \/ Finish(c)

\* Overlapping POST /book requests.
SpecRace == Init /\ [][NextRace]_vars

(***************************************************************************)
(* Vocabulary of the properties                                            *)
(***************************************************************************)

\* d has the form YYYY-MM-DD and names a calendar date.
IsDateKey(d) ==
    /\ Len(d) = 10
    /\ d[5] = "-" /\ d[8] = "-"
    /\ \A i \in {1, 2, 3, 4, 6, 7, 9, 10} : d[i] \in DigitChars
    /\ ParseDate(d).valid

\* s has the form HH:MM.
IsSlotLabel(s) ==
    /\ Len(s) = 5
    /\ s[3] = ":"
    /\ \A i \in {1, 2, 4, 5} : s[i] \in DigitChars

\* Day of week of the calendar date d (0 = Sunday, 6 = Saturday).
CalendarDay(d) == LET p == ParseDate(d) IN WeekdayOf(DaysFromCivil(p.y, p.m, p.d))

Range(seq) == {seq[i] : i \in 1..Len(seq)}

(***************************************************************************)
(* Properties                                                              *)
(***************************************************************************)

\* C1: when (d, s), d a YYYY-MM-DD date and s an HH:MM slot, is booked, a
\* Cancel with the id ListBookings reports for (d, s) whose write does not
\* fail succeeds and leaves (d, s) unbooked.
C1_CancelRoundTrip ==
    [][\A d \in Dates, s \in Slots :
          (/\ IsDateKey(d) /\ IsSlotLabel(s)
           /\ HasBooking(file.data, d, s)
           /\ last'.op = "cancel"
           /\ last'.id = BookingId(d, s)
           /\ last'.error # "Persistence")
          => (last'.status = 200 /\ ~HasBooking(file'.data, d, s))]_vars

\* C2: the id of a pair (d, s), d a YYYY-MM-DD date and s an HH:MM slot, is
\* decoded by Cancel into the date d and the slot s.
C2_EncodingRoundTrip ==
    last.op = "cancel" =>
        \A d \in Dates, s \in Slots :
            (IsDateKey(d) /\ IsSlotLabel(s) /\ last.id = BookingId(d, s))
            => (last.date = d /\ last.slot = s)

\* C3: a Book of a pair that is booked answers 409, calls no write and
\* leaves the persisted store as it was.
C3_BookingUniqueness ==
    [][(last'.op = "book" /\ HasBooking(file.data, last'.date, last'.slot))
          => (last'.status = 409 /\ ~last'.wrote /\ file' = file)]_vars

C3_Witness ==
    /\ last.op = "book" /\ last.status = 409
    /\ HasBooking(file.data, last.date, last.slot)

\* C4: no BookingSet of the persisted store holds the same slot twice.
C4_NoDuplicateSlot ==
    \A k \in 1..Len(file.data) :
        \A i, j \in 1..Len(file.data[k].slots) :
            file.data[k].slots[i] = file.data[k].slots[j] => i = j

C4_Witness ==
    /\ \E k \in 1..Len(file.data) : Len(file.data[k].slots) >= 2
    /\ last.op = "book" /\ last.status = 409

\* C5: every date present in the persisted store has a non-empty BookingSet.
C5_NoEmptyBookingSet ==
    \A k \in 1..Len(file.data) : file.data[k].slots # <<>>

C5_Witness ==
    /\ last.op = "cancel" /\ last.status = 200
    /\ ~HasKey(file.data, last.date)
    /\ file.data # <<>>

C7_TemplateSelection ==
    (last.op = "slots" /\ last.status = 200 /\ IsDateKey(last.date)) =>
        IF CalendarDay(last.date) = 6
        THEN Range(last.available) \subseteq Range(SATURDAY_SLOTS)
        ELSE Range(last.available) \subseteq Range(DEFAULT_SLOTS)

\* C8: a Book or Cancel whose write fails answers 500 and leaves the stored
\* bookings as they were; one that answers 200 has written its mutation.
C8_PersistenceFailure ==
    [][last'.op \in {"book", "cancel"} =>
          /\ (last'.wrote /\ ~last'.writeOk)
                 => (last'.status = 500 /\ file'.data = file.data)
          /\ last'.status = 200
                 => /\ last'.wrote /\ last'.writeOk
                    /\ file'.state = "ok"
                    /\ last'.op = "book"
                           => HasBooking(file'.data, last'.date, last'.slot)
                    /\ last'.op = "cancel"
                           => (/\ HasBooking(file.data, last'.date, last'.slot)
                               /\ ~HasBooking(file'.data, last'.date, last'.slot))]_vars

C8_Witness ==
    /\ last.op \in {"book", "cancel"}
    /\ last.wrote /\ ~last.writeOk /\ last.status = 500

\* C9: a Cancel whose id names no booked pair answers 404, calls no write
\* and leaves the stored bookings as they were.
C9_CancelNotFound ==
    [][(last'.op = "cancel" /\ ~HasBooking(file.data, last'.date, last'.slot))
          => (last'.status = 404 /\ ~last'.wrote /\ file'.data = file.data)]_vars

\* C10: GetAvailability without a date and Book without a date or a slot
\* answer 400 and neither read, create nor write the data file.
C10_InvalidInput ==
    [][(\/ last'.op = "slots" /\ last'.date = <<>>
        \/ last'.op = "book" /\ (last'.date = <<>> \/ last'.slot = <<>>))
          => (/\ last'.status = 400
              /\ ~last'.accessed /\ ~last'.wrote
              /\ file' = file)]_vars

C10_Witness ==
    /\ last.op \in {"slots", "book"} /\ last.status = 400
    /\ file = AbsentFile

\* Dates that are keys of data.
Keys(data) == {data[k].date : k \in 1..Len(data)}

\* C11: a Book that answers 200 appends its slot at the end of its date's
\* BookingSet, leaves every other date's BookingSet as it was, adds no other
\* date, and answers with the pair it booked.
C11_BookEffect ==
    [][(last'.op = "book" /\ last'.status = 200) =>
          \E d \in Dates \ {Empty}, s \in Slots \ {Empty} :
              /\ last'.date = d /\ last'.slot = s
              /\ SlotsOf(file'.data, d) = SlotsOf(file.data, d) \o <<s>>
              /\ Keys(file'.data) = Keys(file.data) \cup {d}
              /\ \A e \in Keys(file.data) \ {d} :
                     SlotsOf(file'.data, e) = SlotsOf(file.data, e)]_vars

C11_Witness ==
    /\ last.op = "book" /\ last.status = 200
    /\ Len(SlotsOf(file.data, last.date)) >= 2

RECURSIVE Before(_, _)
Before(data, k) == IF k <= 1 THEN 0 ELSE Before(data, k - 1) + Len(data[k - 1].slots)

\* C13: ListBookings answers one view {date, slot, id} per stored pair and
\* nothing else, date by date in the order of the store's entries and slot by
\* slot in insertion order; totalBookings is the number of stored pairs.
C13_ListBookings ==
    last.op = "bookings" =>
        /\ last.status = 200
        /\ TotalOf(last) = TotalBookings(file.data)
        /\ Len(last.bookings) = Before(file.data, Len(file.data) + 1)
        /\ \A k \in 1..Len(file.data) :
               \A i \in 1..Len(file.data[k].slots) :
                   last.bookings[Before(file.data, k) + i] =
                       [date |-> file.data[k].date,
                        slot |-> file.data[k].slots[i],
                        id |-> file.data[k].date \o <<"-">>
                                   \o Replace(file.data[k].slots[i], ":", "-")]

C13_Witness ==
    /\ last.op = "bookings"
    /\ Len(last.bookings) >= 2
    /\ Len(file.data) >= 2
    /\ IsArrayIndex(file.data[1].date)

\* C14: GetAvailability and ListBookings leave the stored bookings as they
\* were, and GetAvailability of the same date asked twice in a row answers
\* the same available and booked lists.
C14_ReadOnly ==
    [][last'.op \in {"slots", "bookings"} =>
          /\ file'.data = file.data
          /\ ~last'.wrote
          /\ (last.op = "slots" /\ last'.op = "slots" /\ last'.date = last.date)
                 => (/\ last'.status = last.status
                     /\ last'.available = last.available
                     /\ last'.booked = last.booked)]_vars

C14_Witness ==
    /\ last.op = "slots" /\ last.status = 200
    /\ last.booked # <<>>
    /\ Len(last.available) < Len(AllSlots(GetDay(last.date, tz)))

\* C16: a pair becomes booked only by a Book of that pair that answers 200,
\* and becomes unbooked only by a Cancel that answers 200 and whose id is
\* the id ListBookings reports for that pair.
C16_PairStateMachine ==
    [][\A d \in Dates \ {Empty}, s \in Slots \ {Empty} :
          /\ (~HasBooking(file.data, d, s) /\ HasBooking(file'.data, d, s))
                 => (/\ last'.op = "book" /\ last'.status = 200
                     /\ last'.date = d /\ last'.slot = s)
          /\ (HasBooking(file.data, d, s) /\ ~HasBooking(file'.data, d, s))
                 => (/\ last'.op = "cancel" /\ last'.status = 200
                     /\ last'.id = BookingId(d, s))]_vars

\* C17: a Book of a non-empty date and a non-empty slot that is not booked
\* for the date answers 200 whenever its write succeeds, whether or not the
\* slot is in the date's template; GetAvailability then lists every stored
\* slot of the date in booked, and a stored slot of no template leaves
\* available as it would be without it.
C17_NoTemplateValidation ==
    [][/\ (/\ last'.op = "book"
           /\ last'.date # <<>> /\ last'.slot # <<>>
           /\ ~HasBooking(file.data, last'.date, last'.slot))
              => (/\ last'.wrote
                  /\ last'.writeOk => (/\ last'.status = 200
                                       /\ HasBooking(file'.data, last'.date, last'.slot)))
       /\ (last'.op = "slots" /\ last'.date # <<>>)
              => LET T == AllSlots(GetDay(last'.date, tz))
                 IN  \A s \in Range(SlotsOf(file.data, last'.date)) :
                         /\ s \in Range(last'.booked)
                         /\ s \notin Range(T) =>
                                LET Free(x) == x \notin (Range(last'.booked) \ {s})
                                IN  last'.available = SelectSeq(T, Free)]_vars

C17_Witness ==
    /\ last.op = "slots" /\ last.status = 200
    /\ S06c \in Range(last.booked)
    /\ Range(last.available) \cup Range(last.booked)
           # Range(AllSlots(GetDay(last.date, tz)))
    /\ Len(last.available) = Len(AllSlots(GetDay(last.date, tz)))

\* C18: when every stored pair has a YYYY-MM-DD date and an HH:MM slot, no
\* two bookings that ListBookings returns have the same id.
C18_IdUniqueness ==
    (/\ last.op = "bookings"
     /\ \A i \in 1..Len(last.bookings) :
            IsDateKey(last.bookings[i].date) /\ IsSlotLabel(last.bookings[i].slot))
    => \A i, j \in 1..Len(last.bookings) :
           last.bookings[i].id = last.bookings[j].id => i = j

C18_Witness ==
    /\ last.op = "bookings"
    /\ Len(last.bookings) >= 2
    /\ \A i \in 1..Len(last.bookings) :
           IsDateKey(last.bookings[i].date) /\ IsSlotLabel(last.bookings[i].slot)
    /\ \E i, j \in 1..Len(last.bookings) :
           /\ i # j
           /\ last.bookings[i].slot = last.bookings[j].slot

\* C19: while the data file is unreadable, GetAvailability answers the
\* full template and nothing booked, ListBookings answers no booking, Cancel
\* answers 404, and a Book that answers 200 leaves a store that holds only
\* the pair it booked.
C19_UnreadableStore ==
    [][file.state = "corrupt" =>
          /\ (last'.op = "slots" /\ last'.date # <<>>)
                 => (/\ last'.status = 200
                     /\ last'.booked = <<>>
                     /\ last'.available = AllSlots(GetDay(last'.date, tz)))
          /\ last'.op = "bookings"
                 => (last'.bookings = <<>> /\ TotalOf(last') = 0)
          /\ last'.op = "cancel" => last'.status = 404
          /\ (last'.op = "book" /\ last'.status = 200)
                 => file' = OkFile(<<[date |-> last'.date,
                                     slots |-> <<last'.slot>>]>>)]_vars

\* C15: whenever one Book handler has read the store and found its pair
\* not booked, and another Book request for the same pair is waiting, the
\* waiting handler can read the store before the first one writes.
C15_DoubleBookingRace ==
    \A c, o \in Clients :
        (/\ c # o
         /\ reqs[c].pc = "read" /\ reqs[o].pc = "queued"
         /\ reqs[o].date = reqs[c].date /\ reqs[o].slot = reqs[c].slot
         /\ ~AlreadyBooked(reqs[c].data, reqs[c].date, reqs[c].slot))
        => ENABLED BookRead(o)

\* C15, amended: Book handlers run one after the other even when their
\* requests overlap.  A handler that has read the store holds the store's
\* current content until it answers, and no two requests in flight or
\* answered together have both booked the same pair.
C15_NoDoubleBooking ==
    /\ \A c \in Clients : reqs[c].pc = "read" => reqs[c].data = file.data
    /\ \A c, o \in Clients :
           (/\ c # o
            /\ reqs[c].pc = "done" /\ reqs[o].pc = "done"
            /\ reqs[c].date = reqs[o].date /\ reqs[c].slot = reqs[o].slot)
           => ~(reqs[c].status = 200 /\ reqs[o].status = 200)
    /\ \A k \in 1..Len(file.data) :
           \A i, j \in 1..Len(file.data[k].slots) :
               file.data[k].slots[i] = file.data[k].slots[j] => i = j

C15_Witness ==
    \E c, o \in Clients :
        /\ c # o
        /\ reqs[c].pc = "done" /\ reqs[o].pc = "done"
        /\ reqs[c].date = reqs[o].date /\ reqs[c].slot = reqs[o].slot
        /\ reqs[c].status = 200 /\ reqs[o].status = 409
        /\ reqs[o].overlap

====
